---- MODULE Spec2Model ----
(***************************************************************************)
(* Model of mouse_server.py: the HTTP command server (MouseControlHandler  *)
(* run by ServerThread on a socketserver.TCPServer) and the input          *)
(* injection it performs through pynput.                                   *)
(*                                                                         *)
(* A connection arrives in the listening socket's queue, is accepted by    *)
(* serve_forever, and is handled by do_POST: headers, body read and JSON   *)
(* parse, dispatch on the action tag, one injector method, response body.  *)
(* Every pynput call may raise; the handler methods catch what the code    *)
(* catches.                                                                *)
(***************************************************************************)
EXTENDS Integers, Sequences, FiniteSets, TLC

\* Number of connections the model lets arrive.
MaxRequests == 3

\* Number of ServerThread objects the model lets the window create.
MaxStarts == 2

Ids == 1..MaxRequests

\* Cursor position when the server starts (any position would do).
InitPos == <<100, 100>>

(***************************************************************************)
(* JSON values carried by dx / dy.  Python semantics of `v * 2` and of     *)
(* `int + v` depend on the type of v.                                      *)
(***************************************************************************)
JInt(n) == [t |-> "int", n |-> n]
JStr == [t |-> "str", n |-> 0]
JNull == [t |-> "null", n |-> 0]

\* Strings that the code splits or lower-cases are sequences of characters.
UpperChars == <<"A", "C", "S", "T", "Z">>
LowerChars == <<"a", "c", "s", "t", "z">>

S_a == <<"a">>
S_enter == <<"e", "n", "t", "e", "r">>
S_nokey == <<"n", "o", "k", "e", "y">>
S_ctrl == <<"c", "t", "r", "l">>
S_shift == <<"s", "h", "i", "f", "t">>
S_alt == <<"a", "l", "t">>
S_ctrl_c == <<"c", "t", "r", "l", "+", "c">>
S_Ctrl_Shift_Z == <<"C", "t", "r", "l", "+", "S", "h", "i", "f", "t", "+", "Z">>
S_ctrl_nokey_c == <<"c", "t", "r", "l", "+", "n", "o", "+", "c">>

\* key_map of send_key: the names it maps to pynput Key members.
key_map ==
  { <<"e", "n", "t", "e", "r">>,
    <<"b", "a", "c", "k", "s", "p", "a", "c", "e">>,
    <<"s", "p", "a", "c", "e">>,
    <<"t", "a", "b">>,
    <<"e", "s", "c", "a", "p", "e">>,
    <<"s", "h", "i", "f", "t">>,
    <<"c", "t", "r", "l">>,
    <<"a", "l", "t">>,
    <<"u", "p">>,
    <<"d", "o", "w", "n">>,
    <<"l", "e", "f", "t">>,
    <<"r", "i", "g", "h", "t">>,
    <<"h", "o", "m", "e">>,
    <<"e", "n", "d">>,
    <<"p", "a", "g", "e", "_", "u", "p">>,
    <<"p", "a", "g", "e", "_", "d", "o", "w", "n">>,
    <<"d", "e", "l", "e", "t", "e">>,
    <<"f", "1">>, <<"f", "2">>, <<"f", "3">>, <<"f", "4">>,
    <<"f", "5">>, <<"f", "6">>, <<"f", "7">>, <<"f", "8">>,
    <<"f", "9">>, <<"f", "1", "0">>, <<"f", "1", "1">>, <<"f", "1", "2">> }

(***************************************************************************)
(* Request bodies.  form says what the handler finds on the connection:    *)
(* "nolen" has no Content-Length header, "badjson" is not JSON, "nonobj"   *)
(* is JSON but not an object, "json" is an object with the fields below    *)
(* (a field the object lacks has the default command.get gives it; action  *)
(* "" stands for a missing action, which command.get returns as None).     *)
(***************************************************************************)
Blank ==
  [form |-> "json", action |-> "", dx |-> JInt(0), dy |-> JInt(0),
   button |-> "left", direction |-> "", amount |-> 1,
   key_type |-> "char", key_value |-> <<>>]

Move(dx, dy) == [Blank EXCEPT !.action = "move", !.dx = dx, !.dy = dy]
ClickCmd(b) == [Blank EXCEPT !.action = "click", !.button = b]
ScrollCmd(d, n) == [Blank EXCEPT !.action = "scroll", !.direction = d, !.amount = n]
KeyCmd(t, v) == [Blank EXCEPT !.action = "key", !.key_type = t, !.key_value = v]
ZoomCmd(d) == [Blank EXCEPT !.action = "zoom", !.direction = d]

Bodies ==
  { [Blank EXCEPT !.form = "nolen"],
    [Blank EXCEPT !.form = "badjson"],
    [Blank EXCEPT !.form = "nonobj"],
    Blank,
    [Blank EXCEPT !.action = "drag"],
    Move(JInt(5), JInt(-3)), Move(JInt(1), JInt(0)), Move(JInt(-2), JInt(4)),
    Move(JStr, JInt(0)), Move(JInt(1), JStr), Move(JNull, JInt(0)),
    ClickCmd("left"), ClickCmd("right"), ClickCmd("middle"), ClickCmd("side"),
    ScrollCmd("up", 1), ScrollCmd("up", 0), ScrollCmd("down", 2),
    ScrollCmd("up", -1), ScrollCmd("sideways", 1),
    KeyCmd("char", S_a), KeyCmd("special", S_enter), KeyCmd("special", S_nokey),
    KeyCmd("combo", S_ctrl_c), KeyCmd("combo", S_Ctrl_Shift_Z),
    KeyCmd("combo", S_ctrl_nokey_c), KeyCmd("macro", S_a),
    ZoomCmd("in"), ZoomCmd("out"), ZoomCmd("sideways") }

NoBody == [Blank EXCEPT !.form = "none"]

VARIABLES
  serving,          \* ServerThread.run is inside httpd.serve_forever()
  shutdownRequest,  \* httpd.shutdown() has been called
  arrived,          \* number of connections that reached the listening socket
  backlog,          \* connections waiting to be accepted, oldest first
  pc,               \* pc[id]: where the handler of connection id is
  code,             \* code[id]: HTTP status the handler sent
  command,          \* command[id]: the body the handler read
  args,             \* args[id]: the (dx, dy) passed to move_mouse
  newpos,           \* newpos[id]: (new_x, new_y) computed by move_mouse
  opCalls,          \* opCalls[id]: injector methods the handler has invoked
  failed,           \* failed[id]: a pynput call made for it raised
  emitted,          \* emitted[id]: pynput calls that took effect for it
  position,         \* mouse_controller.position
  held,             \* keyboard keys currently pressed
  applied,          \* ids in the order their injector method ran
  answered,         \* the last response written, with what led to it
  cmdSum,           \* sum of (2*dx, 2*dy) over the integer moves dispatched
  posFail,          \* a read or write of mouse_controller.position raised
  allUnit,          \* every request so far was a POST of {action: move, dx: 1, dy: 0}
  method,           \* method[id]: the HTTP method of the request line
  stopPc,           \* where the thread that called ServerThread.stop is
  socketOpen,       \* the listening socket has not been closed
  \* The touch page (the script of get_html_interface) on the device:
  lastTouchX,
  lastTouchY,
  lastTouchTime,
  gestureStartDistance,
  isScrolling,
  lastZoomDistance,
  isZooming,
  touches,          \* fingers on the trackpad, in the order they came down
  now,              \* Date.now(), in milliseconds since the page loaded
  sent,             \* commands the last touch event passed to sendCommand
  sess,             \* what happened since the first finger came down
  \* The window (MouseControllerGUI) and the ServerThread objects it creates:
  guiPc,            \* where the GUI thread is: idle in its event loop or in stop_server
  server_thread,    \* self.server_thread: the number of the last thread created, 0 for None
  server_running,   \* self.server_running
  start_btn,        \* the Start button is enabled
  stop_btn,         \* the Stop button is enabled
  runPc,            \* runPc[k]: where run() of thread k is
  httpd,            \* httpd[k]: self.httpd of thread k: none, or its socket open or closed
  shutdown_request, \* shutdown_request[k]: __shutdown_request of its TCPServer
  is_shut_down,     \* is_shut_down[k]: the Event __is_shut_down of its TCPServer is set
  statusQueue       \* status_signal emissions queued for the GUI thread

vars ==
  <<serving, shutdownRequest, arrived, backlog, pc, code, command, args, newpos,
    opCalls, failed, emitted, position, held, applied, answered, cmdSum,
    posFail, allUnit, method, stopPc, socketOpen>>

handlerVars == <<pc, code, command, args, newpos, opCalls, failed, emitted, method>>
injectorVars == <<position, held>>
ghostVars == <<cmdSum, posFail, allUnit>>
stopVars == <<stopPc, socketOpen>>
touchVars ==
  <<lastTouchX, lastTouchY, lastTouchTime, gestureStartDistance, isScrolling,
    lastZoomDistance, isZooming, touches, now, sent, sess>>
allVars == <<vars, touchVars>>
guiVars ==
  <<guiPc, server_thread, server_running, start_btn, stop_btn, runPc, httpd,
    shutdown_request, is_shut_down, statusQueue>>

NoAnswer ==
  [id |-> 0, code |-> 0, status |-> "", command |-> NoBody, opCalls |-> 0,
   failed |-> FALSE, emitted |-> <<>>, method |-> "", path |-> "",
   headers |-> {}]

\* The session record before any finger came down.
\* single: no second finger has come down; while it is so, down and start
\* are where and when the finger came down, moved says that a move command
\* was sent, within that every sample stayed within 10 units of down, and up
\* is where the finger went up, sum the sum of the (dx, dy) of the move
\* commands sent.  clicks: click commands sent; ended: the last
\* event lifted the last finger; event: the last event; prevDistance, prevY,
\* prevZooming: lastZoomDistance, lastTouchY and isZooming as the last event
\* found them, when it was a move of two fingers.
NoSession ==
  [down |-> <<0, 0>>, up |-> <<0, 0>>, start |-> 0, sum |-> <<0, 0>>,
   moved |-> FALSE, clicks |-> 0, single |-> TRUE, within |-> TRUE,
   ended |-> FALSE, event |-> "none", prevDistance |-> 0, prevY |-> 0,
   prevZooming |-> FALSE]

\* Handlers that have been accepted and have not returned yet.
Active == {id \in Ids : pc[id] \notin {"new", "done"}}

Init ==
  /\ serving = TRUE
  /\ shutdownRequest = FALSE
  /\ arrived = 0
  /\ backlog = <<>>
  /\ pc = [id \in Ids |-> "new"]
  /\ code = [id \in Ids |-> 0]
  /\ command = [id \in Ids |-> NoBody]
  /\ args = [id \in Ids |-> <<JInt(0), JInt(0)>>]
  /\ newpos = [id \in Ids |-> <<0, 0>>]
  /\ opCalls = [id \in Ids |-> 0]
  /\ failed = [id \in Ids |-> FALSE]
  /\ emitted = [id \in Ids |-> <<>>]
  /\ position = InitPos
  /\ held = {}
  /\ applied = <<>>
  /\ answered = NoAnswer
  /\ cmdSum = <<0, 0>>
  /\ posFail = FALSE
  /\ allUnit = TRUE
  /\ method = [id \in Ids |-> ""]
  /\ stopPc = "idle"
  /\ socketOpen = TRUE
  /\ lastTouchX = 0
  /\ lastTouchY = 0
  /\ lastTouchTime = 0
  /\ gestureStartDistance = 0
  /\ isScrolling = FALSE
  /\ lastZoomDistance = 0
  /\ isZooming = FALSE
  /\ touches = <<>>
  /\ now = 0
  /\ sent = <<>>
  /\ sess = NoSession
  /\ guiPc = "idle"
  /\ server_thread = 0
  /\ server_running = FALSE
  /\ start_btn = TRUE
  /\ stop_btn = FALSE
  /\ runPc = [k \in 1..MaxStarts |-> "none"]
  /\ httpd = [k \in 1..MaxStarts |-> "none"]
  /\ shutdown_request = [k \in 1..MaxStarts |-> FALSE]
  /\ is_shut_down = [k \in 1..MaxStarts |-> FALSE]
  /\ statusQueue = <<>>

(***************************************************************************)
(* Pure parts of the handler.                                              *)
(***************************************************************************)

\* Raises as it would be if a body that is not JSON were taken for an empty
\* object.
RaisesLenient(body) == body.form \in {"nolen", "nonobj"}

\* Lines 74-78 raise: int(None), json.loads on a non-JSON body, or .get on a
\* value that is not a dict.
Raises(body) == body.form \in {"nolen", "badjson", "nonobj"}

\* `v * 2` of line 84 raises TypeError on None.
MulRaises(v) == v.t = "null"

\* Scale as it would be without the gain factor.
ScaleOnce(v) == v

\* `v * 2` of line 84: doubles an int, repeats a str.
Scale(v) == IF v.t = "int" THEN JInt(2 * v.n) ELSE v

\* Dispatch with a final else that clicks.
DispatchDefaultClick(action) ==
  CASE action = "move" -> "move_mouse"
    [] action = "click" -> "click"
    [] action = "scroll" -> "scroll"
    [] action = "key" -> "send_key"
    [] action = "zoom" -> "zoom"
    [] OTHER -> "click"

\* Dispatch without the zoom branch.
DispatchNoZoom(action) ==
  CASE action = "move" -> "move_mouse"
    [] action = "click" -> "click"
    [] action = "scroll" -> "scroll"
    [] action = "key" -> "send_key"
    [] OTHER -> "respond"

\* The if/elif chain of do_POST: the injector method that runs for an action
\* tag, "respond" when no branch matches.
Dispatch(action) ==
  CASE action = "move" -> "move_mouse"
    [] action = "click" -> "click"
    [] action = "scroll" -> "scroll"
    [] action = "key" -> "send_key"
    [] action = "zoom" -> "zoom"
    [] OTHER -> "respond"

\* str.lower() on one character and on a string.
Lower(c) ==
  IF \E i \in 1..Len(UpperChars) : UpperChars[i] = c
  THEN LowerChars[CHOOSE i \in 1..Len(UpperChars) : UpperChars[i] = c]
  ELSE c

LowerStr(s) == [i \in 1..Len(s) |-> Lower(s[i])]

\* key_value.split('+'): the tokens between the '+' signs, empty ones kept.
RECURSIVE SplitRec(_, _, _)
SplitRec(s, i, cur) ==
  IF i > Len(s) THEN <<cur>>
  ELSE IF s[i] = "+" THEN <<cur>> \o SplitRec(s, i + 1, <<>>)
  ELSE SplitRec(s, i + 1, Append(cur, s[i]))

Split(s) == SplitRec(s, 1, <<>>)

\* A pynput key: a Key member, a character, or the text given to type().
KeyMember(name) == [kind |-> "Key", name |-> name]
CharKey(name) == [kind |-> "char", name |-> name]
NoKey == [kind |-> "", name |-> <<>>]

\* One pynput call.
Ev(op, button, key, n) == [op |-> op, button |-> button, key |-> key, n |-> n]

\* KeyObject comparing the token as it is written.
KeyObjectCaseSensitive(token) ==
  IF token \in {S_ctrl, S_shift, S_alt}
  THEN KeyMember(token)
  ELSE CharKey(LowerStr(token))

\* Lines 195-203: the key object a combo token resolves to.
KeyObject(token) ==
  IF LowerStr(token) \in {S_ctrl, S_shift, S_alt}
  THEN KeyMember(LowerStr(token))
  ELSE CharKey(LowerStr(token))

key_objects(key_value) ==
  LET keys == Split(key_value)
  IN [i \in 1..Len(keys) |-> KeyObject(keys[i])]

\* Reversed that leaves the order as it is.
ReversedSame(s) == s

\* reversed(key_objects) of line 210.
Reversed(s) == [i \in 1..Len(s) |-> s[Len(s) + 1 - i]]

\* ClickCalls placing the cursor before it clicks.
ClickCallsAt(button) ==
  IF button \in {"left", "right", "middle"}
  THEN <<Ev("position", "", NoKey, 0), Ev("click", button, NoKey, 0)>>
  ELSE <<>>

\* The pynput calls each injector method makes, in order.
ClickCalls(button) ==
  IF button \in {"left", "right", "middle"}
  THEN <<Ev("click", button, NoKey, 0)>>
  ELSE <<>>

\* ScrollCalls with the sign of the wheel delta inverted.
ScrollCallsInverted(direction, amount) ==
  <<Ev("scroll", "", NoKey, amount * (IF direction = "up" THEN -1 ELSE 1))>>

ScrollCalls(direction, amount) ==
  <<Ev("scroll", "", NoKey, amount * (IF direction = "up" THEN 1 ELSE -1))>>

\* SpecialCalls without the membership test of line 187.
SpecialCallsUnchecked(key_value) ==
  <<Ev("press", "", KeyMember(key_value), 0),
    Ev("release", "", KeyMember(key_value), 0)>>

\* Lines 187-189: the calls of send_key for key_type special.
SpecialCalls(key_value) ==
  IF key_value \in key_map
  THEN <<Ev("press", "", KeyMember(key_value), 0),
         Ev("release", "", KeyMember(key_value), 0)>>
  ELSE <<>>

KeyCalls(key_type, key_value) ==
  CASE key_type = "char" ->
         <<Ev("type", "", [kind |-> "text", name |-> key_value], 0)>>
    [] key_type = "special" -> SpecialCalls(key_value)
    [] key_type = "combo" ->
         LET ks == key_objects(key_value)
         IN [i \in 1..Len(ks) |-> Ev("press", "", ks[i], 0)]
            \o [i \in 1..Len(ks) |-> Ev("release", "", Reversed(ks)[i], 0)]
    [] OTHER -> <<>>

ZoomCalls(direction) ==
  <<Ev("press", "", KeyMember(S_ctrl), 0),
    Ev("scroll", "", NoKey, IF direction = "in" THEN 3 ELSE -3),
    Ev("release", "", KeyMember(S_ctrl), 0)>>

\* pynput raises ValueError for a character key that is not one character;
\* any other call succeeds unless the platform fails.
CanSucceed(call) ==
  call.op \in {"press", "release"} /\ call.key.kind = "char"
    => Len(call.key.name) = 1

\* Keys held after the calls took effect.
RECURSIVE HeldAfter(_, _)
HeldAfter(h, calls) ==
  IF calls = <<>> THEN h
  ELSE LET c == Head(calls)
           h1 == CASE c.op = "press" -> h \cup {c.key}
                   [] c.op = "release" -> h \ {c.key}
                   [] OTHER -> h
       IN HeldAfter(h1, Tail(calls))

(***************************************************************************)
(* The server loop (ServerThread.run, socketserver.TCPServer).             *)
(***************************************************************************)

\* CanAccept of a ThreadingTCPServer: one thread per request.
CanAcceptThreading == TRUE

\* TCPServer.process_request runs the handler in the serving thread: the
\* loop accepts the next connection only after the handler has returned.
CanAccept == Active = {}

\* NextConn taking the newest connection first.
NextConnNewest(q) == q[Len(q)]

\* accept() takes the oldest connection of the listening socket's queue.
NextConn(q) == Head(q)

\* ServeForeverExits of a loop that serves one request (handle_request).
ServesOneRequest == shutdownRequest \/ answered.id /= 0

\* serve_forever returns only on shutdown().
ServeForeverExits == shutdownRequest

\* BaseHTTPRequestHandler calls do_<method>; the page and its clients use
\* these three.
Methods == {"POST", "GET", "OPTIONS"}

Route(m) ==
  CASE m = "POST" -> "post"
    [] m = "GET" -> "get"
    [] m = "OPTIONS" -> "options"

\* Request paths: the two that do_GET serves and one it does not.
Paths == {"/", "/index.html", "/favicon.ico"}

\* A client connects.
Arrive ==
  /\ socketOpen
  /\ arrived < MaxRequests
  /\ arrived' = arrived + 1
  /\ backlog' = Append(backlog, arrived + 1)
  /\ UNCHANGED <<serving, shutdownRequest, handlerVars, injectorVars, applied,
                 answered, ghostVars>>
  /\ UNCHANGED <<stopVars, touchVars, guiVars>>

\* serve_forever accepts a connection and the handler calls do_GET, do_POST
\* or do_OPTIONS; do_POST first sends the 200 status line and headers (lines
\* 68-71).
Accept ==
  /\ serving
  /\ ~shutdownRequest
  /\ CanAccept
  /\ backlog /= <<>>
  /\ LET id == NextConn(backlog)
     IN /\ backlog' = SelectSeq(backlog, LAMBDA c : c /= id)
        /\ \E m \in Methods :
             /\ method' = [method EXCEPT ![id] = m]
             /\ pc' = [pc EXCEPT ![id] = Route(m)]
             /\ code' = [code EXCEPT ![id] = IF m = "POST" THEN 200 ELSE 0]
             /\ allUnit' = (allUnit /\ m = "POST")
  /\ UNCHANGED <<serving, shutdownRequest, arrived, command, args, newpos,
                 opCalls, failed, emitted, injectorVars, applied, answered,
                 cmdSum, posFail>>
  /\ UNCHANGED <<stopVars, touchVars, guiVars>>

\* ServerThread.stop: httpd.shutdown().
Shutdown ==
  /\ serving
  /\ ~shutdownRequest
  /\ shutdownRequest' = TRUE
  /\ UNCHANGED <<serving, arrived, backlog, handlerVars, injectorVars, applied,
                 answered, ghostVars>>
  /\ stopPc = "idle"
  /\ stopPc' = "shutdown"
  /\ UNCHANGED <<socketOpen, touchVars, guiVars>>

\* ServerThread.stop, after httpd.shutdown() returned: server_close().
StopReturn ==
  /\ stopPc = "shutdown"
  /\ ~serving
  /\ socketOpen' = FALSE
  /\ stopPc' = "returned"
  /\ UNCHANGED <<serving, shutdownRequest, arrived, backlog, handlerVars,
                 injectorVars, applied, answered, ghostVars, touchVars, guiVars>>

\* serve_forever sees the shutdown request between two requests and returns.
ServeForeverReturn ==
  /\ serving
  /\ ServeForeverExits
  /\ Active = {}
  /\ serving' = FALSE
  /\ UNCHANGED <<shutdownRequest, arrived, backlog, handlerVars, injectorVars,
                 applied, answered, ghostVars>>
  /\ UNCHANGED <<stopVars, touchVars, guiVars>>

(***************************************************************************)
(* do_POST and the injector methods.                                       *)
(***************************************************************************)

IsUnitMove(body) ==
  body.form = "json" /\ body.action = "move" /\ body.dx = JInt(1) /\ body.dy = JInt(0)

IsIntMove(body) ==
  body.form = "json" /\ body.action = "move" /\ body.dx.t = "int" /\ body.dy.t = "int"

\* Lines 74-102 up to the call of the injector method: read the body, parse
\* it, pick the branch and evaluate the arguments.
ReadBody(id) ==
  /\ pc[id] = "post"
  /\ \E body \in Bodies :
       /\ command' = [command EXCEPT ![id] = body]
       /\ allUnit' = (allUnit /\ IsUnitMove(body))
       /\ IF Raises(body)
          THEN /\ pc' = [pc EXCEPT ![id] = "except"]
               /\ UNCHANGED <<args, opCalls, cmdSum>>
          ELSE IF Dispatch(body.action) = "move_mouse"
          THEN IF MulRaises(body.dx) \/ MulRaises(body.dy)
               THEN /\ pc' = [pc EXCEPT ![id] = "except"]
                    /\ UNCHANGED <<args, opCalls, cmdSum>>
               ELSE /\ pc' = [pc EXCEPT ![id] = "move_mouse"]
                    /\ args' = [args EXCEPT ![id] = <<Scale(body.dx), Scale(body.dy)>>]
                    /\ opCalls' = [opCalls EXCEPT ![id] = @ + 1]
                    /\ cmdSum' = IF IsIntMove(body)
                                 THEN <<cmdSum[1] + 2 * body.dx.n,
                                        cmdSum[2] + 2 * body.dy.n>>
                                 ELSE cmdSum
          ELSE /\ pc' = [pc EXCEPT ![id] = Dispatch(body.action)]
               /\ opCalls' = [opCalls EXCEPT ![id] =
                                IF Dispatch(body.action) = "respond" THEN @ ELSE @ + 1]
               /\ UNCHANGED <<args, cmdSum>>
  /\ UNCHANGED <<serving, shutdownRequest, arrived, backlog, code, newpos,
                 failed, emitted, injectorVars, applied, answered, posFail>>
  /\ UNCHANGED <<method, stopVars, touchVars, guiVars>>

\* AfterInjector of injector methods that let the exception of a pynput
\* call reach do_POST.
AfterInjectorPropagates(raised) == IF raised THEN "except" ELSE "respond"

\* Where do_POST continues when an injector method returns: each method
\* catches the exceptions of its pynput calls (lines 128, 141, 150, 213,
\* 229), so do_POST goes on to line 104 whether a call raised or not.
AfterInjector(raised) == "respond"

\* ReadPosition answering with the position the cursor had at start-up.
ReadPositionStale == InitPos

\* current_x, current_y = self.mouse_controller.position (line 124).
ReadPosition == position

\* move_mouse, lines 124-126: read the position and add the deltas.  The
\* read may raise, and so does int + str; both are caught at line 128.
MoveRead(id) ==
  /\ pc[id] = "move_mouse"
  /\ \/ /\ failed' = [failed EXCEPT ![id] = TRUE]
        /\ posFail' = TRUE
        /\ pc' = [pc EXCEPT ![id] = AfterInjector(TRUE)]
        /\ applied' = Append(applied, id)
        /\ UNCHANGED newpos
     \/ /\ args[id][1].t = "int" /\ args[id][2].t = "int"
        /\ newpos' = [newpos EXCEPT ![id] =
                        <<ReadPosition[1] + args[id][1].n,
                          ReadPosition[2] + args[id][2].n>>]
        /\ pc' = [pc EXCEPT ![id] = "move_write"]
        /\ UNCHANGED <<failed, posFail, applied>>
     \/ /\ ~(args[id][1].t = "int" /\ args[id][2].t = "int")
        /\ pc' = [pc EXCEPT ![id] = AfterInjector(TRUE)]
        /\ applied' = Append(applied, id)
        /\ UNCHANGED <<newpos, failed, posFail>>
  /\ UNCHANGED <<serving, shutdownRequest, arrived, backlog, code, command,
                 args, opCalls, emitted, injectorVars, answered, cmdSum, allUnit>>
  /\ UNCHANGED <<method, stopVars, touchVars, guiVars>>

\* move_mouse, line 127: write the new position back.
MoveWrite(id) ==
  /\ pc[id] = "move_write"
  /\ \/ /\ position' = newpos[id]
        /\ emitted' = [emitted EXCEPT ![id] = Append(@, Ev("position", "", NoKey, 0))]
        /\ pc' = [pc EXCEPT ![id] = AfterInjector(FALSE)]
        /\ UNCHANGED <<failed, posFail>>
     \/ /\ failed' = [failed EXCEPT ![id] = TRUE]
        /\ posFail' = TRUE
        /\ pc' = [pc EXCEPT ![id] = AfterInjector(TRUE)]
        /\ UNCHANGED <<position, emitted>>
  /\ applied' = Append(applied, id)
  /\ UNCHANGED <<serving, shutdownRequest, arrived, backlog, code, command,
                 args, newpos, opCalls, held, answered, cmdSum, allUnit>>
  /\ UNCHANGED <<method, stopVars, touchVars, guiVars>>

\* An injector method makes its pynput calls in order inside try/except: the
\* first n take effect, and if n is not all of them call n+1 raised and the
\* method logs and returns.
Inject(id, calls) ==
  /\ \E n \in 0..Len(calls) :
       /\ \A i \in 1..n : CanSucceed(calls[i])
       /\ emitted' = [emitted EXCEPT ![id] = @ \o SubSeq(calls, 1, n)]
       /\ held' = HeldAfter(held, SubSeq(calls, 1, n))
       /\ failed' = [failed EXCEPT ![id] = @ \/ n < Len(calls)]
       /\ pc' = [pc EXCEPT ![id] = AfterInjector(n < Len(calls))]
  /\ applied' = Append(applied, id)
  /\ UNCHANGED <<serving, shutdownRequest, arrived, backlog, code, command,
                 args, newpos, opCalls, position, answered, ghostVars>>
  /\ UNCHANGED <<method, stopVars, touchVars, guiVars>>

Click(id) ==
  /\ pc[id] = "click"
  /\ Inject(id, ClickCalls(command[id].button))

Scroll(id) ==
  /\ pc[id] = "scroll"
  /\ Inject(id, ScrollCalls(command[id].direction, command[id].amount))

SendKey(id) ==
  /\ pc[id] = "send_key"
  /\ Inject(id, KeyCalls(command[id].key_type, command[id].key_value))

Zoom(id) ==
  /\ pc[id] = "zoom"
  /\ Inject(id, ZoomCalls(command[id].direction))

\* Headers of do_POST (69-70), do_GET (55-56) and do_OPTIONS (115-117).
PostHeaders == {"Content-type: application/json", "Access-Control-Allow-Origin: *"}
GetHeaders == {"Content-type: text/html", "Access-Control-Allow-Origin: *"}

\* OptionsHeaders without the Allow-Headers line.
OptionsHeadersShort ==
  {"Access-Control-Allow-Origin: *",
   "Access-Control-Allow-Methods: POST, GET, OPTIONS"}

OptionsHeaders ==
  {"Access-Control-Allow-Origin: *",
   "Access-Control-Allow-Methods: POST, GET, OPTIONS",
   "Access-Control-Allow-Headers: Content-Type"}

\* The handler has written its response and returns to the server loop.
FinishWith(id, path, c, hdrs, body) ==
  /\ answered' = [id |-> id, code |-> c, status |-> body,
                  command |-> command[id], opCalls |-> opCalls[id],
                  failed |-> failed[id], emitted |-> emitted[id],
                  method |-> method[id], path |-> path, headers |-> hdrs]
  /\ pc' = [pc EXCEPT ![id] = "done"]
  /\ code' = [code EXCEPT ![id] = 0]
  /\ command' = [command EXCEPT ![id] = NoBody]
  /\ args' = [args EXCEPT ![id] = <<JInt(0), JInt(0)>>]
  /\ newpos' = [newpos EXCEPT ![id] = <<0, 0>>]
  /\ opCalls' = [opCalls EXCEPT ![id] = 0]
  /\ failed' = [failed EXCEPT ![id] = FALSE]
  /\ emitted' = [emitted EXCEPT ![id] = <<>>]
  /\ method' = [method EXCEPT ![id] = ""]
  /\ UNCHANGED <<serving, shutdownRequest, arrived, backlog, injectorVars,
                 applied, ghostVars, stopVars, touchVars, guiVars>>

\* do_POST writes its body and returns.
Finish(id, status) == FinishWith(id, "", code[id], PostHeaders, status)

\* do_OPTIONS, lines 112-118: status, three headers, no body.
DoOptions(id) ==
  /\ pc[id] = "options"
  /\ \E path \in Paths : FinishWith(id, path, 200, OptionsHeaders, "")

\* ServesPage of a handler that knows the root path only.
ServesPageRootOnly(path) == path = "/"

\* The test of line 53: the paths do_GET answers with the page.
ServesPage(path) == path = "/" \/ path = "/index.html"

\* do_GET, lines 51-64: the page for / and /index.html, 404 otherwise.
DoGet(id) ==
  /\ pc[id] = "get"
  /\ \E path \in Paths :
       IF ServesPage(path)
       THEN FinishWith(id, path, 200, GetHeaders, "page")
       ELSE FinishWith(id, path, 404, {}, "")

\* The handler is inside a pynput call.
InPlatformCall(id) ==
  CASE pc[id] \in {"move_mouse", "move_write", "scroll", "zoom"} -> TRUE
    [] pc[id] = "click" -> ClickCalls(command[id].button) /= <<>>
    [] pc[id] = "send_key" ->
         KeyCalls(command[id].key_type, command[id].key_value) /= <<>>
    [] OTHER -> FALSE

\* A pynput call blocks and never returns; nothing in the handler or in the
\* server loop bounds the time a call may take.
Hang(id) ==
  /\ InPlatformCall(id)
  /\ pc' = [pc EXCEPT ![id] = "hung"]
  /\ UNCHANGED <<serving, shutdownRequest, arrived, backlog, code, command,
                 args, newpos, opCalls, failed, emitted, method, injectorVars,
                 applied, answered, ghostVars, stopVars, touchVars, guiVars>>

\* Lines 104-105.
Respond(id) ==
  /\ pc[id] = "respond"
  /\ Finish(id, "ok")

\* Lines 107-110.
Except(id) ==
  /\ pc[id] = "except"
  /\ Finish(id, "error")

Next ==
  \/ Arrive
  \/ Accept
  \/ Shutdown
  \/ StopReturn
  \/ ServeForeverReturn
  \/ \E id \in Ids : DoOptions(id)
  \/ \E id \in Ids : DoGet(id)
  \/ \E id \in Ids : Hang(id)
  \/ \E id \in Ids : ReadBody(id)
  \/ \E id \in Ids : MoveRead(id)
  \/ \E id \in Ids : MoveWrite(id)
  \/ \E id \in Ids : Click(id)
  \/ \E id \in Ids : Scroll(id)
  \/ \E id \in Ids : SendKey(id)
  \/ \E id \in Ids : Zoom(id)
  \/ \E id \in Ids : Respond(id)
  \/ \E id \in Ids : Except(id)

Spec == Init /\ [][Next]_vars

\* What the server thread does by itself once it can: accept, run the
\* handler's code, leave the loop.  Reading a body waits for the client.
HandlerStep(id) ==
  \/ MoveRead(id) \/ MoveWrite(id) \/ Click(id) \/ Scroll(id) \/ SendKey(id)
  \/ Zoom(id) \/ Respond(id) \/ Except(id) \/ DoOptions(id) \/ DoGet(id)

ServerThreadStep == Accept \/ ServeForeverReturn \/ \E id \in Ids : HandlerStep(id)

\* Both threads are scheduled; clients may stay silent.
FairStop == Spec /\ WF_vars(ServerThreadStep) /\ WF_vars(StopReturn)

\* Both threads are scheduled and every client sends the body it declared.
FairHang ==
  /\ Spec
  /\ WF_vars(ServerThreadStep \/ \E id \in Ids : ReadBody(id))
  /\ WF_vars(StopReturn)

(***************************************************************************)
(* Properties.                                                             *)
(***************************************************************************)

ActionTags == {"move", "click", "scroll", "key", "zoom"}

\* Requests that have been answered.
Done == {id \in Ids : pc[id] = "done"}

\* A command of the protocol with well-typed fields.
ValidCommand(b) ==
  /\ b.form = "json"
  /\ CASE b.action = "move" -> b.dx.t = "int" /\ b.dy.t = "int"
       [] b.action = "click" -> b.button \in {"left", "right", "middle"}
       [] b.action = "scroll" -> b.direction \in {"up", "down"}
       [] b.action = "key" -> b.key_type \in {"char", "special", "combo"}
       [] b.action = "zoom" -> b.direction \in {"in", "out"}
       [] OTHER -> FALSE

\* C1: when no handler is running and no position read or write has failed,
\* the cursor is at the initial position plus the sum of (2*dx, 2*dy) over
\* the integer move commands dispatched so far, and an integer move is
\* answered with status ok.
C1_MoveSum ==
  /\ (Active = {} /\ ~posFail) =>
       position = <<InitPos[1] + cmdSum[1], InitPos[2] + cmdSum[2]>>
  /\ (answered.id /= 0 /\ IsIntMove(answered.command)) => answered.status = "ok"

C1_Witness ==
  /\ Active = {}
  /\ ~posFail
  /\ answered.command = Move(JInt(5), JInt(-3))
  /\ answered.status = "ok"
  /\ Cardinality(Done) = 1
  /\ position = <<InitPos[1] + 10, InitPos[2] - 6>>

\* C2: while one handler is between its position read and its position
\* write, no other handler is at its position read or position write.
C2_NoInterleave ==
  \A a, b \in Ids :
    (a /= b /\ pc[a] = "move_write") => pc[b] \notin {"move_mouse", "move_write"}

C2_Witness == \E a \in Ids : pc[a] = "move_write" /\ backlog /= <<>>

\* C3 as stated: once N requests, all of them move dx=1 dy=0, have been
\* answered with a working injector, the cursor has moved by exactly N in x.
C3_Original ==
  (allUnit /\ Active = {} /\ ~posFail /\ Done /= {}) =>
    position[1] - InitPos[1] = Cardinality(Done)

\* C3 amended: once N requests, all of them move dx=1 dy=0, have been
\* answered with a working injector, the cursor has moved by exactly 2*N in x
\* and not in y.
C3_NoLostUpdate ==
  (allUnit /\ Active = {} /\ ~posFail /\ Done /= {}) =>
    position = <<InitPos[1] + 2 * Cardinality(Done), InitPos[2]>>

C3_Witness ==
  /\ allUnit /\ Active = {} /\ ~posFail
  /\ Cardinality(Done) >= 2
  /\ position[1] = InitPos[1] + 2 * Cardinality(Done)

\* C4: injector methods run in the order in which their connections reached
\* the server (ids number the connections in that order).
C4_ArrivalOrder ==
  \A i, j \in 1..Len(applied) : i < j => applied[i] < applied[j]

C4_Witness == Len(applied) >= 2 /\ answered.id >= 2

\* C5: every response written to a POST has HTTP status 200 and status ok
\* or error, and a POST without Content-Length, with a body that is not JSON
\* or with JSON that is not an object gets status error.
C5_Always200 ==
  (answered.id /= 0 /\ answered.method = "POST") =>
    /\ answered.code = 200
    /\ answered.status \in {"ok", "error"}
    /\ answered.command.form /= "json" => answered.status = "error"

C5_Witness ==
  /\ answered.command.form = "badjson"
  /\ answered.code = 200
  /\ answered.status = "error"

\* C6: a POST with a malformed body, a missing or unknown action, or a
\* non-integer dx or dy is answered with status error.
C6_ProtocolErrorReported ==
  (/\ answered.id /= 0
   /\ answered.method = "POST"
   /\ \/ answered.command.form /= "json"
      \/ answered.command.action \notin ActionTags
      \/ answered.command.action = "move" /\ ~IsIntMove(answered.command))
    => answered.status = "error"

\* C7: a JSON object whose action is not one of the five tags is answered
\* with status ok, no injector method is invoked for it and no pynput call
\* takes effect for it.
C7_UnknownActionNoop ==
  (/\ answered.id /= 0
   /\ answered.command.form = "json"
   /\ answered.command.action \notin ActionTags)
    => /\ answered.status = "ok"
       /\ answered.opCalls = 0
       /\ answered.emitted = <<>>
       /\ ~answered.failed

C7_Witness ==
  /\ answered.command.form = "json"
  /\ answered.command.action = "drag"
  /\ answered.status = "ok"

\* C8: a request for which a pynput call raised is answered with status
\* error.
C8_InjectionErrorReported ==
  (answered.id /= 0 /\ answered.failed) => answered.status = "error"

\* C9: unless shutdown was requested, the server is serving, whatever the
\* requests handled so far were and however they ended.
C9_StaysServing == ~shutdownRequest => serving

C9_Witness ==
  /\ serving
  /\ posFail
  /\ Cardinality(Done) >= 2
  /\ ~answered.failed
  /\ answered.status = "ok"

\* C10: when the response of a valid command is written, exactly one
\* injector method has been invoked for it and that method has returned.
C10_OneOpBeforeResponse ==
  (answered.id /= 0 /\ ValidCommand(answered.command)) =>
    /\ answered.opCalls = 1
    /\ \E i \in 1..Len(applied) : applied[i] = answered.id

C10_Witness ==
  /\ answered.command = ZoomCmd("in")
  /\ answered.opCalls = 1
  /\ answered.emitted = ZoomCalls("in")
  /\ held = {}

\* The pynput calls a command makes when none of them raises.
CallsOf(b) ==
  CASE b.form /= "json" -> <<>>
    [] b.action = "move" /\ IsIntMove(b) -> <<Ev("position", "", NoKey, 0)>>
    [] b.action = "click" -> ClickCalls(b.button)
    [] b.action = "scroll" -> ScrollCalls(b.direction, b.amount)
    [] b.action = "key" -> KeyCalls(b.key_type, b.key_value)
    [] b.action = "zoom" -> ZoomCalls(b.direction)
    [] OTHER -> <<>>

Press(k) == Ev("press", "", k, 0)
Release(k) == Ev("release", "", k, 0)

\* C11: when a request has been answered, either all the pynput calls of its
\* command took effect or none did.
C11_AllOrNothing ==
  answered.id /= 0 =>
    answered.emitted \in {<<>>, CallsOf(answered.command)}

\* C12: when a zoom command has been answered, every press of ctrl made for
\* it was followed by a release of ctrl.
C12_CtrlReleased ==
  (/\ answered.id /= 0
   /\ answered.command.form = "json"
   /\ answered.command.action = "zoom")
    => \A i \in 1..Len(answered.emitted) :
         answered.emitted[i] = Press(KeyMember(S_ctrl)) =>
           \E j \in (i + 1)..Len(answered.emitted) :
             answered.emitted[j] = Release(KeyMember(S_ctrl))

\* C13: the key calls that took effect for a combo command are a prefix of
\* press k1, ..., press kn, release kn, ..., release k1, and all of it when no
\* call raised; ctrl+c gives press ctrl, press c, release c, release ctrl and
\* Ctrl+Shift+Z gives press ctrl, shift, z, release z, shift, ctrl.
C13_ComboOrder ==
  (/\ answered.id /= 0
   /\ answered.command.form = "json"
   /\ answered.command.action = "key"
   /\ answered.command.key_type = "combo")
    => LET ks == key_objects(answered.command.key_value)
           n == Len(ks)
           e == answered.emitted
           expected == [i \in 1..(2 * n) |->
                          IF i <= n THEN Press(ks[i]) ELSE Release(ks[2 * n + 1 - i])]
       IN /\ Len(e) <= 2 * n
          /\ \A i \in 1..Len(e) : e[i] = expected[i]
          /\ ~answered.failed => Len(e) = 2 * n
          /\ (answered.command.key_value = S_ctrl_c /\ ~answered.failed) =>
               e = <<Press(KeyMember(S_ctrl)), Press(CharKey(<<"c">>)),
                     Release(CharKey(<<"c">>)), Release(KeyMember(S_ctrl))>>
          /\ (answered.command.key_value = S_Ctrl_Shift_Z /\ ~answered.failed) =>
               e = <<Press(KeyMember(S_ctrl)), Press(KeyMember(S_shift)),
                     Press(CharKey(<<"z">>)), Release(CharKey(<<"z">>)),
                     Release(KeyMember(S_shift)), Release(KeyMember(S_ctrl))>>

C13_Witness ==
  /\ answered.command = KeyCmd("combo", S_Ctrl_Shift_Z)
  /\ ~answered.failed
  /\ Len(answered.emitted) = 6
  /\ answered.emitted[4] = Release(CharKey(<<"z">>))
  /\ held = {}

\* C14: a scroll command whose wheel call took effect scrolled by at least
\* one tick in its stated direction, and by exactly one tick when its amount
\* is 0 or negative.
C14_AmountClamped ==
  (/\ answered.id /= 0
   /\ answered.command.form = "json"
   /\ answered.command.action = "scroll"
   /\ answered.command.direction \in {"up", "down"}
   /\ answered.emitted /= <<>>)
    => LET n == answered.emitted[1].n
           ticks == IF answered.command.direction = "up" THEN n ELSE 0 - n
       IN /\ ticks >= 1
          /\ answered.command.amount <= 0 => ticks = 1

\* C18: once ServerThread.stop has been called it returns, with the accept
\* loop halted and the listening socket closed.
C18_StopReturns ==
  (stopPc = "shutdown") ~> (stopPc = "returned" /\ ~serving /\ ~socketOpen)

\* C19: when a pynput call hangs, eventually no handler is stuck in a call
\* any more (the call was given up and its request answered) and the
\* connections waiting to be accepted have been taken, unless the server is
\* being stopped.
C19_HangBounded ==
  (\E id \in Ids : pc[id] = "hung")
    ~> (/\ \A id \in Ids : pc[id] /= "hung"
        /\ backlog = <<>> \/ shutdownRequest)

\* C20: the response to an OPTIONS request, on any path, has status 200, the
\* three CORS headers and no body, and no injector method was invoked and no
\* pynput call took effect for it.
C20_Options ==
  (answered.id /= 0 /\ answered.method = "OPTIONS") =>
    /\ answered.code = 200
    /\ answered.headers = {"Access-Control-Allow-Origin: *",
                           "Access-Control-Allow-Methods: POST, GET, OPTIONS",
                           "Access-Control-Allow-Headers: Content-Type"}
    /\ answered.status = ""
    /\ answered.opCalls = 0
    /\ answered.emitted = <<>>
    /\ ~answered.failed

C20_Witness ==
  /\ answered.method = "OPTIONS"
  /\ answered.path = "/favicon.ico"
  /\ answered.code = 200
  /\ Cardinality(Done) = 2
  /\ position /= InitPos

(***************************************************************************)
(* The touch page served by do_GET: the trackpad's touchstart, touchmove   *)
(* and touchend handlers.  Each event is handled to completion before the  *)
(* next one; sendCommand posts the command and returns at once.            *)
(***************************************************************************)

\* Positions (clientX, clientY) at which a finger is sampled.
Points ==
  { <<0, 0>>, <<1, 0>>, <<6, 0>>, <<12, 0>>, <<80, 0>>, <<0, 12>>, <<0, 60>> }

\* Milliseconds between one touch event and the next.
Delays == {50, 100}

\* Date.now() of the last event the model lets happen.
MaxNow == 300

\* const zoomThreshold = 30 of the touchmove handler.
zoomThreshold == 30

Abs(n) == IF n < 0 THEN -n ELSE n

\* Math.sqrt, on the squares the sampled positions produce.
RECURSIVE SqrtFrom(_, _)
SqrtFrom(n, x) ==
  LET y == (x + n \div x) \div 2 IN IF y >= x THEN x ELSE SqrtFrom(n, y)

Sqrt(n) == IF n = 0 THEN 0 ELSE SqrtFrom(n, n)

DistSq(t1, t2) ==
  (t1[1] - t2[1]) * (t1[1] - t2[1]) + (t1[2] - t2[2]) * (t1[2] - t2[2])

getDistance(touch1, touch2) == Sqrt(DistSq(touch1, touch2))

\* (centerX, centerY) of two fingers.
Center(ts) == <<(ts[1][1] + ts[2][1]) \div 2, (ts[1][2] + ts[2][2]) \div 2>>

\* Math.ceil(a / b) for a >= 0, b > 0.
CeilDiv(a, b) == (a + b - 1) \div b

\* The finger placements the model samples: two fingers are never at the same
\* point, and their distance and their midpoint are whole numbers, so that
\* Sqrt and Center above are exactly what Math.sqrt and / 2 give.
Sampled(ts) ==
  Len(ts) = 2 =>
    /\ ts[1] /= ts[2]
    /\ Sqrt(DistSq(ts[1], ts[2])) * Sqrt(DistSq(ts[1], ts[2])) = DistSq(ts[1], ts[2])
    /\ (ts[1][1] + ts[2][1]) % 2 = 0
    /\ (ts[1][2] + ts[2][2]) % 2 = 0

\* e.touches of the events the model lets happen.
Placements ==
  {<<p>> : p \in Points} \cup {ts \in Points \X Points : Sampled(ts)}

\* touchstart (647-665).  A finger comes down at p, dt after the last event.
TouchStart(p, dt) ==
  LET ts == Append(touches, p) IN
  /\ ts \in Placements
  /\ now + dt <= MaxNow
  /\ now' = now + dt
  /\ touches' = ts
  /\ lastTouchTime' = now'
  /\ IF Len(ts) = 1
       THEN /\ lastTouchX' = ts[1][1]
            /\ lastTouchY' = ts[1][2]
            /\ isScrolling' = FALSE
            /\ isZooming' = FALSE
            /\ UNCHANGED <<gestureStartDistance, lastZoomDistance>>
       ELSE /\ lastTouchX' = Center(ts)[1]
            /\ lastTouchY' = Center(ts)[2]
            /\ gestureStartDistance' = getDistance(ts[1], ts[2])
            /\ lastZoomDistance' = gestureStartDistance'
            /\ isScrolling' = TRUE
            /\ isZooming' = FALSE
  /\ sent' = <<>>
  /\ sess' = IF touches = <<>>
               THEN [NoSession EXCEPT !.down = p, !.start = now',
                                      !.event = "start"]
               ELSE [NoSession EXCEPT !.single = FALSE, !.event = "start"]
  /\ UNCHANGED <<vars, guiVars>>

\* The two-finger branch of touchmove (685-718), scroll tested before zoom.
TwoFingerMoveScrollFirst(centerY, currentDistance) ==
  LET distanceDiff == currentDistance - lastZoomDistance
      deltaY == centerY - lastTouchY
  IN  IF ~isZooming /\ Abs(deltaY) > 8
        THEN [cmds |-> <<ScrollCmd(IF deltaY < 0 THEN "up" ELSE "down",
                                   CeilDiv(Abs(deltaY), 15))>>,
              zooming |-> isZooming, distance |-> lastZoomDistance,
              y |-> centerY]
      ELSE IF Abs(distanceDiff) > zoomThreshold
        THEN [cmds |-> <<ZoomCmd(IF distanceDiff > 0 THEN "in" ELSE "out")>>,
              zooming |-> TRUE, distance |-> currentDistance, y |-> centerY]
      ELSE [cmds |-> <<>>, zooming |-> isZooming,
            distance |-> lastZoomDistance, y |-> lastTouchY]

\* ScrollAmount rounding down.
ScrollAmountFloor(deltaY) == Abs(deltaY) \div 15

\* Line 708: Math.ceil(Math.abs(deltaY) / 15).
ScrollAmount(deltaY) == CeilDiv(Abs(deltaY), 15)

\* TwoFingerMove leaving the distance baseline where it was after a zoom.
TwoFingerMoveNoRebase(centerY, currentDistance) ==
  LET distanceDiff == currentDistance - lastZoomDistance
      deltaY == centerY - lastTouchY
  IN  IF Abs(distanceDiff) > zoomThreshold
        THEN [cmds |-> <<ZoomCmd(IF distanceDiff > 0 THEN "in" ELSE "out")>>,
              zooming |-> TRUE, distance |-> lastZoomDistance, y |-> centerY]
      ELSE IF ~isZooming /\ Abs(deltaY) > 8
        THEN [cmds |-> <<ScrollCmd(IF deltaY < 0 THEN "up" ELSE "down",
                                   ScrollAmount(deltaY))>>,
              zooming |-> isZooming, distance |-> lastZoomDistance,
              y |-> centerY]
      ELSE [cmds |-> <<>>, zooming |-> isZooming,
            distance |-> lastZoomDistance, y |-> lastTouchY]

\* TwoFingerMove going on to the scroll test after it has sent a zoom.
TwoFingerMoveFallThrough(centerY, currentDistance) ==
  LET distanceDiff == currentDistance - lastZoomDistance
      deltaY == centerY - lastTouchY
      zoom == IF Abs(distanceDiff) > zoomThreshold
                THEN <<ZoomCmd(IF distanceDiff > 0 THEN "in" ELSE "out")>>
                ELSE <<>>
      scroll == IF ~isZooming /\ Abs(deltaY) > 8
                  THEN <<ScrollCmd(IF deltaY < 0 THEN "up" ELSE "down",
                                   ScrollAmount(deltaY))>>
                  ELSE <<>>
  IN  [cmds |-> zoom \o scroll,
       zooming |-> isZooming \/ zoom /= <<>>,
       distance |-> IF zoom /= <<>> THEN currentDistance ELSE lastZoomDistance,
       y |-> IF zoom \o scroll /= <<>> THEN centerY ELSE lastTouchY]

\* The two-finger branch of touchmove (685-718): the commands it sends and
\* the values it leaves in isZooming, lastZoomDistance and lastTouchY.
TwoFingerMove(centerY, currentDistance) ==
  LET distanceDiff == currentDistance - lastZoomDistance
      deltaY == centerY - lastTouchY
  IN  IF Abs(distanceDiff) > zoomThreshold
        THEN [cmds |-> <<ZoomCmd(IF distanceDiff > 0 THEN "in" ELSE "out")>>,
              zooming |-> TRUE, distance |-> currentDistance, y |-> centerY]
      ELSE IF ~isZooming /\ Abs(deltaY) > 8
        THEN [cmds |-> <<ScrollCmd(IF deltaY < 0 THEN "up" ELSE "down",
                                   ScrollAmount(deltaY))>>,
              zooming |-> isZooming, distance |-> lastZoomDistance,
              y |-> centerY]
      ELSE [cmds |-> <<>>, zooming |-> isZooming,
            distance |-> lastZoomDistance, y |-> lastTouchY]

\* BeyondDeadband asking for both axes to exceed the deadband.
BeyondDeadbandBoth(deltaX, deltaY) == Abs(deltaX) > 1 /\ Abs(deltaY) > 1

\* The test of line 675: the finger left the 1-unit deadband on some axis.
BeyondDeadband(deltaX, deltaY) == Abs(deltaX) > 1 \/ Abs(deltaY) > 1

\* touchmove (667-719).  The fingers are sampled at ts, dt after the last
\* event; at least one of them has moved.
TouchMove(ts, dt) ==
  /\ touches /= <<>>
  /\ ts \in Placements
  /\ Len(ts) = Len(touches)
  /\ ts /= touches
  /\ now + dt <= MaxNow
  /\ now' = now + dt
  /\ touches' = ts
  /\ IF Len(ts) = 1 /\ ~isScrolling /\ ~isZooming
       THEN LET deltaX == ts[1][1] - lastTouchX
                deltaY == ts[1][2] - lastTouchY
            IN  /\ IF BeyondDeadband(deltaX, deltaY)
                     THEN /\ sent' = <<Move(JInt(deltaX), JInt(deltaY))>>
                          /\ lastTouchX' = ts[1][1]
                          /\ lastTouchY' = ts[1][2]
                     ELSE /\ sent' = <<>>
                          /\ UNCHANGED <<lastTouchX, lastTouchY>>
                /\ UNCHANGED <<lastZoomDistance, isZooming>>
     ELSE IF Len(ts) = 2
       THEN LET r == TwoFingerMove(Center(ts)[2], getDistance(ts[1], ts[2]))
            IN  /\ sent' = r.cmds
                /\ isZooming' = r.zooming
                /\ lastZoomDistance' = r.distance
                /\ lastTouchY' = r.y
                /\ UNCHANGED lastTouchX
     ELSE /\ sent' = <<>>
          /\ UNCHANGED <<lastTouchX, lastTouchY, lastZoomDistance, isZooming>>
  /\ sess' = IF sess.single
               THEN [sess EXCEPT
                       !.moved = @ \/ (sent' /= <<>> /\ sent'[1].action = "move"),
                       !.within = @ /\ DistSq(ts[1], sess.down) <= 100,
                       !.sum = IF sent' /= <<>> /\ sent'[1].action = "move"
                                 THEN <<@[1] + sent'[1].dx.n, @[2] + sent'[1].dy.n>>
                                 ELSE @,
                       !.event = "move"]
             ELSE IF Len(ts) = 2
               THEN [NoSession EXCEPT !.single = FALSE, !.event = "move",
                                      !.prevDistance = lastZoomDistance,
                                      !.prevY = lastTouchY,
                                      !.prevZooming = isZooming]
             ELSE [NoSession EXCEPT !.single = FALSE, !.event = "move"]
  /\ UNCHANGED <<lastTouchTime, gestureStartDistance, isScrolling>>
  /\ UNCHANGED <<vars, guiVars>>

\* e.touches of a touchend: the fingers of ts whose index is not in L.
RECURSIVE Without(_, _, _)
Without(ts, L, i) ==
  IF i > Len(ts) THEN <<>>
  ELSE (IF i \in L THEN <<>> ELSE <<ts[i]>>) \o Without(ts, L, i + 1)

\* IsTap without the test of the scroll and zoom flags.
IsTapIgnoringMode(touchDuration, nChanged, nRest, wasMoving) ==
  /\ touchDuration < 200
  /\ nChanged = 1
  /\ nRest = 0
  /\ ~wasMoving

\* The tests of lines 725 and 729: the touchend sends a click.
IsTap(touchDuration, nChanged, nRest, wasMoving) ==
  /\ touchDuration < 200
  /\ nChanged = 1
  /\ nRest = 0
  /\ ~wasMoving /\ ~isScrolling /\ ~isZooming

\* FlagsAfterEnd of a touchend that resets the flags whenever a finger goes up.
FlagsAfterEndAlways(rest) == <<FALSE, FALSE>>

\* FlagsAfterEnd of a touchend that leaves the flags as they are.
FlagsAfterEndKept(rest) == <<isScrolling, isZooming>>

\* Lines 735-738: isScrolling and isZooming after a touchend that leaves the
\* fingers rest on the trackpad.
FlagsAfterEnd(rest) ==
  IF Len(rest) = 0 THEN <<FALSE, FALSE>> ELSE <<isScrolling, isZooming>>

\* touchend (721-739).  The fingers whose indices are in L are lifted, dt
\* after the last event, where they were last sampled; e.changedTouches[0]
\* is the first of them.
TouchEnd(L, dt) ==
  LET changed == touches[CHOOSE i \in L : \A j \in L : i <= j]
      rest == Without(touches, L, 1)
      touchDuration == now' - lastTouchTime
      wasMoving == \/ Abs(changed[1] - lastTouchX) > 10
                   \/ Abs(changed[2] - lastTouchY) > 10
      clicked == IsTap(touchDuration, Cardinality(L), Len(rest), wasMoving)
  IN
  /\ L /= {}
  /\ L \subseteq 1..Len(touches)
  /\ now + dt <= MaxNow
  /\ now' = now + dt
  /\ touches' = rest
  /\ sent' = IF clicked THEN <<ClickCmd("left")>> ELSE <<>>
  /\ isScrolling' = FlagsAfterEnd(rest)[1]
  /\ isZooming' = FlagsAfterEnd(rest)[2]
  /\ sess' = IF sess.single
               THEN [sess EXCEPT !.up = changed,
                                 !.clicks = IF clicked THEN 1 ELSE 0,
                                 !.ended = TRUE,
                                 !.event = "end"]
               ELSE [NoSession EXCEPT !.single = FALSE,
                                      !.clicks = IF clicked THEN 1 ELSE 0,
                                      !.ended = (Len(rest) = 0),
                                      !.event = "end"]
  /\ UNCHANGED <<lastTouchX, lastTouchY, lastTouchTime, gestureStartDistance,
                 lastZoomDistance>>
  /\ UNCHANGED <<vars, guiVars>>

TouchNext ==
  \/ \E p \in Points, dt \in Delays : TouchStart(p, dt)
  \/ \E ts \in Placements, dt \in Delays : TouchMove(ts, dt)
  \/ \E L \in SUBSET (1..2), dt \in Delays : TouchEnd(L, dt)

\* The page alone, the server left as it started.
SpecGesture == Init /\ [][TouchNext]_allVars

(***************************************************************************)
(* Properties of the touch page.                                           *)
(***************************************************************************)

\* A finger came down, no second one did, and the last event lifted it.
SingleFingerPair == sess.single /\ sess.ended /\ sess.event = "end"

\* C15 (tap): when one finger comes down and goes up again less than 200 ms
\* later, at most 10 units away, every sample in between within 10 units of
\* where it came down, the page has sent exactly one click, of the left
\* button, and no move.
C15_TapClicksOnly ==
  (/\ SingleFingerPair
   /\ DistSq(sess.down, sess.up) <= 100
   /\ sess.within
   /\ now - sess.start < 200)
    => /\ sess.clicks = 1
       /\ sent = <<ClickCmd("left")>>
       /\ ~sess.moved

\* C16 (drag): when one finger comes down and goes up more than 10 units
\* away along some axis, the page has sent no click, whatever the duration
\* and the samples in between.
C16_DragNoClick ==
  (/\ SingleFingerPair
   /\ \/ Abs(sess.up[1] - sess.down[1]) > 10
      \/ Abs(sess.up[2] - sess.down[2]) > 10)
    => sess.clicks = 0

\* A move of two fingers has just been handled, and it found the distance
\* between them more than zoomThreshold away from lastZoomDistance.
PinchSample ==
  /\ sess.event = "move"
  /\ Len(touches) = 2
  /\ Abs(getDistance(touches[1], touches[2]) - sess.prevDistance) > 30

\* C17 (zoom precedence): a move of two fingers that finds the distance
\* between them more than 30 units away from the baseline sends exactly one
\* command, a zoom (in when the distance grew, out when it shrank), and no
\* scroll, however far the midpoint moved vertically.
C17_ZoomPrecedence ==
  PinchSample =>
    /\ Len(sent) = 1
    /\ sent[1].action = "zoom"
    /\ sent[1].direction =
         IF getDistance(touches[1], touches[2]) > sess.prevDistance
           THEN "in" ELSE "out"
    /\ \A i \in 1..Len(sent) : sent[i].action /= "scroll"

\* A pinch whose midpoint also moved vertically by more than the scroll
\* deadband, before any zoom of this gesture: had the scroll test come
\* first, it would have sent a scroll.
C17_Witness ==
  /\ PinchSample
  /\ ~sess.prevZooming
  /\ Abs(Center(touches)[2] - sess.prevY) > 8
  /\ sent = <<ZoomCmd("in")>>

(***************************************************************************)
(* Properties of the handler, continued.                                   *)
(***************************************************************************)

\* C21: a GET of / or /index.html is answered 200 with the page and the two
\* headers of the page; a GET of any other path is answered 404 with no
\* headers and no body; and a GET never calls an injector method, neither
\* while it is handled nor by the time it is answered.
C21_Get ==
  /\ (answered.id /= 0 /\ answered.method = "GET") =>
       /\ answered.path \in {"/", "/index.html"} =>
            /\ answered.code = 200
            /\ answered.status = "page"
            /\ answered.headers = {"Content-type: text/html",
                                   "Access-Control-Allow-Origin: *"}
       /\ answered.path \notin {"/", "/index.html"} =>
            /\ answered.code = 404
            /\ answered.status = ""
            /\ answered.headers = {}
       /\ answered.opCalls = 0
       /\ answered.emitted = <<>>
  /\ \A id \in Ids :
       method[id] = "GET" =>
         /\ opCalls[id] = 0
         /\ emitted[id] = <<>>
         /\ pc[id] \in {"get", "done"}

\* The page has been served for /index.html after a command moved the cursor.
C21_Witness ==
  /\ answered.method = "GET"
  /\ answered.path = "/index.html"
  /\ answered.code = 200
  /\ position /= InitPos

\* C22: a scroll command whose direction is neither up nor down, and a zoom
\* command whose direction is neither in nor out, is answered with status
\* error and no wheel call is made for it.
C22_DirectionValidated ==
  (/\ answered.id /= 0
   /\ answered.command.form = "json"
   /\ \/ /\ answered.command.action = "scroll"
         /\ answered.command.direction \notin {"up", "down"}
      \/ /\ answered.command.action = "zoom"
         /\ answered.command.direction \notin {"in", "out"})
    => /\ answered.status = "error"
       /\ \A i \in 1..Len(answered.emitted) : answered.emitted[i].op /= "scroll"

\* A key command of kind special has been answered.
SpecialAnswered ==
  /\ answered.id /= 0
  /\ answered.command.form = "json"
  /\ answered.command.action = "key"
  /\ answered.command.key_type = "special"

\* C23: a key command of kind special whose value is not a name of key_map
\* presses and releases nothing, leaves the held keys as they were (none)
\* and is answered ok; one whose value is a name of key_map makes, when no
\* pynput call raises, exactly one press and then one release of that key.
C23_SpecialKey ==
  SpecialAnswered =>
    /\ answered.command.key_value \notin key_map =>
         /\ answered.emitted = <<>>
         /\ answered.status = "ok"
    /\ (answered.command.key_value \in key_map /\ ~answered.failed) =>
         /\ answered.emitted =
              <<Press(KeyMember(answered.command.key_value)),
                Release(KeyMember(answered.command.key_value))>>
         /\ answered.status = "ok"

\* A name key_map lacks has been answered after another request.
C23_Witness ==
  /\ SpecialAnswered
  /\ answered.command.key_value = S_nokey
  /\ answered.status = "ok"
  /\ Cardinality(Done) >= 2

\* The tokens joined by '+' again.
RECURSIVE Joined(_)
Joined(toks) ==
  IF Len(toks) = 1 THEN toks[1]
  ELSE toks[1] \o <<"+">> \o Joined(Tail(toks))

\* toks are the tokens of the combo value v, in order: they contain no '+'
\* and joined by '+' they give v.
TokensOf(v, toks) ==
  /\ Len(toks) >= 1
  /\ \A i \in 1..Len(toks) : \A j \in 1..Len(toks[i]) : toks[i][j] /= "+"
  /\ Joined(toks) = v

\* A handler is about to run send_key for a combo.
ComboPending(id) ==
  /\ pc[id] = "send_key"
  /\ command[id].key_type = "combo"

\* C29 as stated: the key list send_key builds for a combo has one key per
\* token of the value split on '+', in the same order; a token that is ctrl,
\* shift or alt in any case is that modifier key, every other token is the
\* character key of the token as written.
C29_Original ==
  \A id \in Ids :
    ComboPending(id) =>
      LET toks == Split(command[id].key_value)
          ks == key_objects(command[id].key_value)
      IN /\ TokensOf(command[id].key_value, toks)
         /\ Len(ks) = Len(toks)
         /\ \A i \in 1..Len(toks) :
              IF LowerStr(toks[i]) \in {S_ctrl, S_shift, S_alt}
              THEN ks[i] = KeyMember(LowerStr(toks[i]))
              ELSE ks[i] = CharKey(toks[i])

\* C29 amended: as above, but every other token is the character key of the
\* token in lower case.
C29_ComboResolved ==
  \A id \in Ids :
    ComboPending(id) =>
      LET toks == Split(command[id].key_value)
          ks == key_objects(command[id].key_value)
      IN /\ TokensOf(command[id].key_value, toks)
         /\ Len(ks) = Len(toks)
         /\ \A i \in 1..Len(toks) :
              IF LowerStr(toks[i]) \in {S_ctrl, S_shift, S_alt}
              THEN ks[i] = KeyMember(LowerStr(toks[i]))
              ELSE ks[i] = CharKey(LowerStr(toks[i]))

\* send_key is about to run for Ctrl+Shift+Z, whose tokens are not in lower
\* case, after another request was answered.
C29_Witness ==
  \E id \in Ids :
    /\ ComboPending(id)
    /\ command[id].key_value = S_Ctrl_Shift_Z
    /\ key_objects(command[id].key_value) =
         <<KeyMember(S_ctrl), KeyMember(S_shift), CharKey(<<"z">>)>>
    /\ Done /= {}

\* C30: when no pynput call raised, an answered scroll command with direction
\* up (down) has made exactly one wheel call, of delta +amount (-amount),
\* and an answered zoom command with direction in (out) has made exactly a
\* press of ctrl, a wheel call of delta +3 (-3) and a release of ctrl, in
\* this order.
C30_WheelDeltas ==
  (answered.id /= 0 /\ answered.command.form = "json" /\ ~answered.failed) =>
    /\ (/\ answered.command.action = "scroll"
        /\ answered.command.direction \in {"up", "down"}) =>
         answered.emitted =
           <<Ev("scroll", "", NoKey,
                IF answered.command.direction = "up"
                  THEN answered.command.amount
                  ELSE 0 - answered.command.amount)>>
    /\ (/\ answered.command.action = "zoom"
        /\ answered.command.direction \in {"in", "out"}) =>
         answered.emitted =
           <<Press(KeyMember(S_ctrl)),
             Ev("scroll", "", NoKey,
                IF answered.command.direction = "in" THEN 3 ELSE -3),
             Release(KeyMember(S_ctrl))>>

\* A scroll down by 2 has turned the wheel by -2, after another answer.
C30_Witness ==
  /\ answered.id /= 0
  /\ answered.command = ScrollCmd("down", 2)
  /\ ~answered.failed
  /\ answered.emitted = <<Ev("scroll", "", NoKey, -2)>>
  /\ Cardinality(Done) >= 2

(***************************************************************************)
(* Properties of the touch page, continued.                                *)
(***************************************************************************)

\* One finger is down and no second one has come down since it did: the
\* single-finger branch of touchmove is the one that runs (Panning).
Panning == Len(touches) = 1 /\ sess.single

\* A step that handles a move sample of the finger while Panning.
PanningSample == Panning /\ Panning' /\ sess'.event = "move" /\ now' > now

\* C24: while Panning, a move sample at most 1 unit from the anchor on both
\* axes sends nothing and leaves the anchor where it was; a sample further
\* away on some axis sends exactly one move, carrying the displacement from
\* the anchor, and makes the sample the anchor; and the deltas of the moves
\* sent always add up to the anchor minus the position of the touch-down.
C24_PanningDeadband ==
  /\ [][PanningSample =>
          LET deltaX == touches'[1][1] - lastTouchX
              deltaY == touches'[1][2] - lastTouchY
          IN  /\ ~isScrolling /\ ~isZooming
              /\ (Abs(deltaX) <= 1 /\ Abs(deltaY) <= 1) =>
                   /\ sent' = <<>>
                   /\ lastTouchX' = lastTouchX
                   /\ lastTouchY' = lastTouchY
              /\ (Abs(deltaX) > 1 \/ Abs(deltaY) > 1) =>
                   /\ sent' = <<Move(JInt(deltaX), JInt(deltaY))>>
                   /\ lastTouchX' = touches'[1][1]
                   /\ lastTouchY' = touches'[1][2]]_allVars
  /\ [](Panning =>
          sess.sum = <<lastTouchX - sess.down[1], lastTouchY - sess.down[2]>>)

\* A sample inside the deadband has just been dropped, after a move was
\* sent: the finger is 1 unit from the anchor.
C24_Witness ==
  /\ Panning
  /\ sess.event = "move"
  /\ sent = <<>>
  /\ sess.moved
  /\ touches[1] = <<1, 0>>
  /\ <<lastTouchX, lastTouchY>> = <<0, 0>>
  /\ sess.down = <<0, 12>>
  /\ sess.sum = <<0, -12>>

\* A move of two fingers has just been handled, and it found the distance
\* between them at most 30 units away from the baseline.
ScrollSample ==
  /\ sess.event = "move"
  /\ Len(touches) = 2
  /\ Abs(getDistance(touches[1], touches[2]) - sess.prevDistance) <= 30

\* What C25 asks of a scroll sample: with dy the midpoint's vertical
\* displacement from the reference, one scroll of ceil(|dy| / 15), up when dy
\* is negative and down otherwise, and the reference rebased, when |dy| > 8.
ScrollEmitted ==
  LET dy == Center(touches)[2] - sess.prevY
  IN  Abs(dy) > 8 =>
        /\ Len(sent) = 1
        /\ sent[1].action = "scroll"
        /\ sent[1].direction = IF dy < 0 THEN "up" ELSE "down"
        /\ 15 * (sent[1].amount - 1) < Abs(dy)
        /\ Abs(dy) <= 15 * sent[1].amount
        /\ lastTouchY = Center(touches)[2]

\* C25 as stated: every scroll sample is handled so, also one that follows a
\* zoom of the same two-finger gesture.
C25_Original == ScrollSample => ScrollEmitted

\* C25 amended: a scroll sample is handled so as long as no zoom has been
\* sent in this two-finger gesture; after a zoom, and when |dy| <= 8, it
\* sends nothing and leaves the reference where it was.
C25_ScrollSample ==
  ScrollSample =>
    /\ ~sess.prevZooming => ScrollEmitted
    /\ (sess.prevZooming \/ Abs(Center(touches)[2] - sess.prevY) <= 8) =>
         /\ sent = <<>>
         /\ lastTouchY = sess.prevY

\* A scroll of 36 units up has been sent as amount 3.
C25_Witness ==
  /\ ScrollSample
  /\ ~sess.prevZooming
  /\ Center(touches)[2] - sess.prevY = -36
  /\ sent = <<ScrollCmd("up", 3)>>

\* C26: the distance baseline is the distance of the two fingers when the
\* second came down, then their distance at the last zoom sent: a sample
\* more than 30 units beyond it sends one zoom, in when the distance grew
\* and out otherwise, and becomes the baseline; any other two-finger sample
\* leaves the baseline where it was.
C26_ZoomRebase ==
  /\ (sess.event = "start" /\ Len(touches) = 2) =>
       lastZoomDistance = getDistance(touches[1], touches[2])
  /\ PinchSample =>
       /\ sent = <<ZoomCmd(IF getDistance(touches[1], touches[2]) > sess.prevDistance
                             THEN "in" ELSE "out")>>
       /\ lastZoomDistance = getDistance(touches[1], touches[2])
       /\ isZooming
  /\ ScrollSample =>
       /\ lastZoomDistance = sess.prevDistance
       /\ \A i \in 1..Len(sent) : sent[i].action /= "zoom"

\* A continued pinch: a second zoom in has been sent, 40 units beyond the
\* distance at which the first one was.
C26_Witness ==
  /\ PinchSample
  /\ sess.prevZooming
  /\ sess.prevDistance = 60
  /\ lastZoomDistance = 100
  /\ sent = <<ZoomCmd("in")>>

\* C27: whenever no finger is on the trackpad, isScrolling and isZooming are
\* both false, whatever the gesture before; and a finger that then comes down
\* alone starts Panning afresh: the flags are false, the anchor is where it
\* came down and the tap clock starts at its touch-down, so that the
\* single-finger branch of touchmove and the click of touchend apply again.
C27_BackToIdle ==
  /\ touches = <<>> => (~isScrolling /\ ~isZooming)
  /\ Panning => (~isScrolling /\ ~isZooming)
  /\ (Panning /\ sess.event = "start") =>
       /\ <<lastTouchX, lastTouchY>> = touches[1]
       /\ lastTouchTime = now
       /\ sess.sum = <<0, 0>>
       /\ sess.clicks = 0

\* After a gesture of two fingers, a finger that came down alone has sent a
\* move and, on going up, a click.
C27_Witness ==
  /\ gestureStartDistance > 0
  /\ touches = <<>>
  /\ SingleFingerPair
  /\ sess.moved
  /\ sent = <<ClickCmd("left")>>

\* C28: every touch event (a finger coming down, a move sample, a finger
\* going up) sends at most one command; and a move sample under the
\* thresholds sends none: one finger at most 1 unit from the anchor on both
\* axes, or two fingers whose distance is at most 30 units from the baseline
\* and whose midpoint is at most 8 units from the vertical reference.
C28_AtMostOne ==
  /\ [](Len(sent) <= 1)
  /\ [][(/\ PanningSample
         /\ Abs(touches'[1][1] - lastTouchX) <= 1
         /\ Abs(touches'[1][2] - lastTouchY) <= 1) => sent' = <<>>]_allVars
  /\ []((ScrollSample /\ Abs(Center(touches)[2] - sess.prevY) <= 8)
          => sent = <<>>)

\* A sample beyond the zoom threshold and beyond the scroll threshold at
\* once has sent one command, the zoom out.
C28_Witness ==
  /\ PinchSample
  /\ ~sess.prevZooming
  /\ Abs(Center(touches)[2] - sess.prevY) > 8
  /\ sent = <<ZoomCmd("out")>>

\* C31: once a second finger has come down, and until all fingers have been
\* lifted, a move sample of one finger sends nothing (no move in particular)
\* and leaves the anchor where it was: the page is still in scroll mode.
C31_NoPanningAfterTwo ==
  (Len(touches) = 1 /\ ~sess.single) =>
    /\ isScrolling
    /\ sess.event = "move" =>
         /\ sent = <<>>
         /\ ~sess.moved

\* After one of two fingers was lifted, the other has moved 12 units away
\* from the anchor (the midpoint of the two) and nothing was sent.
C31_Witness ==
  /\ Len(touches) = 1
  /\ ~sess.single
  /\ sess.event = "move"
  /\ Abs(touches[1][1] - lastTouchX) + Abs(touches[1][2] - lastTouchY) >= 12
  /\ sent = <<>>

\* C32: no touchend of a session in which a second finger came down sends a
\* click; a touchend that sends a click lifts the last finger of a session
\* in which no second finger came down.
C32_NoTapAfterTwo ==
  /\ ~sess.single => (sess.clicks = 0 /\ (sess.event = "end" => sent = <<>>))
  /\ (sess.event = "end" /\ sent /= <<>>) =>
       /\ sent = <<ClickCmd("left")>>
       /\ sess.single
       /\ touches = <<>>

\* The last of two fingers has gone up within 10 units of the anchor, less
\* than 200 ms after the second came down, and no click was sent.
C32_Witness ==
  /\ ~sess.single
  /\ sess.event = "end"
  /\ touches = <<>>
  /\ now - lastTouchTime < 200
  /\ gestureStartDistance = 12
  /\ <<lastTouchX, lastTouchY>> = <<0, 6>>
  /\ sent = <<>>

(***************************************************************************)
(* Properties of the handler: errors and frame.                            *)
(***************************************************************************)

\* C33: a POST answered with status error has invoked no injector method and
\* no pynput call was made for it: it left the cursor, the buttons, the
\* wheel and the keyboard as they were.
C33_ErrorMeansUntouched ==
  (answered.id /= 0 /\ answered.method = "POST" /\ answered.status = "error") =>
    /\ answered.opCalls = 0
    /\ answered.emitted = <<>>
    /\ ~answered.failed
    /\ \A i \in 1..Len(applied) : applied[i] /= answered.id

\* A move whose dx is null has been answered with status error, after an
\* earlier command moved the cursor.
C33_Witness ==
  /\ answered.status = "error"
  /\ answered.command = Move(JNull, JInt(0))
  /\ answered.opCalls = 0
  /\ position /= InitPos

\* The pynput calls that took effect for the answered request had an
\* operation in ops.
EmittedSome(ops) ==
  \E i \in 1..Len(answered.emitted) : answered.emitted[i].op \in ops

\* C34: the cursor position changes only in the step in which move_mouse
\* writes it, for a move command; the set of held keys changes only in a
\* step of send_key or zoom; an answered click, scroll, zoom or key command
\* has made no call that sets the position, and an answered move, click or
\* scroll command has made no call that presses, releases or types a key.
C34_Frame ==
  /\ [][position' /= position =>
          \E id \in Ids : /\ pc[id] = "move_write"
                          /\ command[id].action = "move"]_vars
  /\ [][held' /= held =>
          \E id \in Ids : /\ pc[id] \in {"send_key", "zoom"}
                          /\ command[id].action \in {"key", "zoom"}]_vars
  /\ []((/\ answered.id /= 0
         /\ answered.command.form = "json"
         /\ answered.command.action \in {"click", "scroll", "zoom", "key"})
          => ~EmittedSome({"position"}))
  /\ []((/\ answered.id /= 0
         /\ answered.command.form = "json"
         /\ answered.command.action \in {"move", "click", "scroll"})
          => ~EmittedSome({"press", "release", "type"}))

\* ctrl+c has been pressed and released, after another request, with the
\* cursor where it was at the start.
C34_Witness ==
  /\ answered.id /= 0
  /\ answered.command = KeyCmd("combo", S_ctrl_c)
  /\ Len(answered.emitted) = 4
  /\ position = InitPos
  /\ Cardinality(Done) >= 2

(***************************************************************************)
(* The window and its server threads: MouseControllerGUI.start_server,     *)
(* stop_server, update_server_status and closeEvent on the GUI thread,     *)
(* ServerThread.run on the thread each ServerThread object starts.  The    *)
(* status signals of a thread are delivered to the GUI thread through its  *)
(* event queue and handled when it is idle.  No client connects here.      *)
(***************************************************************************)

Threads == 1..MaxStarts

\* QThread.isRunning(): run() has been started and has not returned.
isRunning(k) == runPc[k] \notin {"none", "finished"}

\* Lines 1186-1187: start_server goes on unless a thread is running.
MayStart == ~(server_thread /= 0 /\ isRunning(server_thread))

\* start_server (1178-1196), pynput being installed.
start_server ==
  /\ guiPc = "idle"
  /\ MayStart
  /\ server_thread < MaxStarts
  /\ server_thread' = server_thread + 1
  /\ runPc' = [runPc EXCEPT ![server_thread'] = "started"]
  /\ start_btn' = FALSE
  /\ stop_btn' = TRUE
  /\ server_running' = TRUE
  /\ UNCHANGED <<guiPc, httpd, shutdown_request, is_shut_down, statusQueue>>
  /\ UNCHANGED <<vars, touchVars>>

\* Lines 1204-1206 of stop_server.
StopTail ==
  /\ start_btn' = TRUE
  /\ stop_btn' = FALSE
  /\ server_running' = FALSE
  /\ guiPc' = "idle"

\* stop_server (1198-1211) up to the call of ServerThread.stop: from the Stop
\* button or the tray menu, or (fromClose) from closeEvent or
\* quit_application, which call it only if server_running.
stop_server(fromClose) ==
  /\ guiPc = "idle"
  /\ fromClose => server_running
  /\ IF server_thread /= 0 /\ isRunning(server_thread)
       THEN /\ guiPc' = "stop"
            /\ UNCHANGED <<start_btn, stop_btn, server_running>>
       ELSE StopTail
  /\ UNCHANGED <<server_thread, runPc, httpd, shutdown_request, is_shut_down,
                 statusQueue>>
  /\ UNCHANGED <<vars, touchVars>>

\* ServerThread.stop, lines 807-808: httpd.shutdown() is called only if
\* self.httpd is set; it sets the request flag and waits for the event.
StopCall ==
  /\ guiPc = "stop"
  /\ IF httpd[server_thread] /= "none"
       THEN /\ shutdown_request' = [shutdown_request EXCEPT ![server_thread] = TRUE]
            /\ guiPc' = "shutdown"
       ELSE /\ guiPc' = "wait"
            /\ UNCHANGED shutdown_request
  /\ UNCHANGED <<server_thread, server_running, start_btn, stop_btn, runPc,
                 httpd, is_shut_down, statusQueue>>
  /\ UNCHANGED <<vars, touchVars>>

\* httpd.shutdown() returns when the event is set; server_close (809).
ShutdownReturn ==
  /\ guiPc = "shutdown"
  /\ is_shut_down[server_thread]
  /\ httpd' = [httpd EXCEPT ![server_thread] = "closed"]
  /\ guiPc' = "wait"
  /\ UNCHANGED <<server_thread, server_running, start_btn, stop_btn, runPc,
                 shutdown_request, is_shut_down, statusQueue>>
  /\ UNCHANGED <<vars, touchVars>>

\* server_thread.wait() (1202) returns when run() has returned; then the
\* rest of stop_server.
WaitReturn ==
  /\ guiPc = "wait"
  /\ ~isRunning(server_thread)
  /\ StopTail
  /\ UNCHANGED <<server_thread, runPc, httpd, shutdown_request, is_shut_down,
                 statusQueue>>
  /\ UNCHANGED <<vars, touchVars>>

\* update_server_status (1213-1232) for the oldest queued signal: only
\* "error" touches the buttons, and none touches server_running.
update_server_status ==
  /\ guiPc = "idle"
  /\ statusQueue /= <<>>
  /\ statusQueue' = Tail(statusQueue)
  /\ IF Head(statusQueue) = "error"
       THEN start_btn' = TRUE /\ stop_btn' = FALSE
       ELSE UNCHANGED <<start_btn, stop_btn>>
  /\ UNCHANGED <<guiPc, server_thread, server_running, runPc, httpd,
                 shutdown_request, is_shut_down>>
  /\ UNCHANGED <<vars, touchVars>>

\* Line 787: TCPServer(...) binds port 3000 and assigns self.httpd, or
\* raises (the port is taken, by another program or by a socket of this
\* one that is still open); 788-797: the "running" signal.
Bind(k) ==
  /\ runPc[k] = "started"
  /\ \E ok \in BOOLEAN :
       IF ok /\ \A j \in Threads : httpd[j] /= "open"
         THEN /\ httpd' = [httpd EXCEPT ![k] = "open"]
              /\ runPc' = [runPc EXCEPT ![k] = "bound"]
              /\ statusQueue' = Append(statusQueue, "running")
         ELSE /\ runPc' = [runPc EXCEPT ![k] = "except"]
              /\ UNCHANGED <<httpd, statusQueue>>
  /\ UNCHANGED <<guiPc, server_thread, server_running, start_btn, stop_btn,
                 shutdown_request, is_shut_down>>
  /\ UNCHANGED <<vars, touchVars>>

\* Line 798, entry of serve_forever: the event is cleared.
ServeEnter(k) ==
  /\ runPc[k] = "bound"
  /\ is_shut_down' = [is_shut_down EXCEPT ![k] = FALSE]
  /\ runPc' = [runPc EXCEPT ![k] = "serving"]
  /\ UNCHANGED <<guiPc, server_thread, server_running, start_btn, stop_btn,
                 httpd, shutdown_request, statusQueue>>
  /\ UNCHANGED <<vars, touchVars>>

\* serve_forever leaves its loop once the request flag is set, resets the
\* flag and sets the event.
ServeExit(k) ==
  /\ runPc[k] = "serving"
  /\ shutdown_request[k]
  /\ shutdown_request' = [shutdown_request EXCEPT ![k] = FALSE]
  /\ is_shut_down' = [is_shut_down EXCEPT ![k] = TRUE]
  /\ runPc' = [runPc EXCEPT ![k] = "finally"]
  /\ UNCHANGED <<guiPc, server_thread, server_running, start_btn, stop_btn,
                 httpd, statusQueue>>
  /\ UNCHANGED <<vars, touchVars>>

\* Lines 799-801: the except clause emits "error".
RunExcept(k) ==
  /\ runPc[k] = "except"
  /\ statusQueue' = Append(statusQueue, "error")
  /\ runPc' = [runPc EXCEPT ![k] = "finally"]
  /\ UNCHANGED <<guiPc, server_thread, server_running, start_btn, stop_btn,
                 httpd, shutdown_request, is_shut_down>>
  /\ UNCHANGED <<vars, touchVars>>

\* Lines 802-803: the finally clause emits "stopped" and run() returns.
RunFinally(k) ==
  /\ runPc[k] = "finally"
  /\ statusQueue' = Append(statusQueue, "stopped")
  /\ runPc' = [runPc EXCEPT ![k] = "finished"]
  /\ UNCHANGED <<guiPc, server_thread, server_running, start_btn, stop_btn,
                 httpd, shutdown_request, is_shut_down>>
  /\ UNCHANGED <<vars, touchVars>>

ThreadStep(k) ==
  Bind(k) \/ ServeEnter(k) \/ ServeExit(k) \/ RunExcept(k) \/ RunFinally(k)

GuiNext ==
  \/ start_server
  \/ \E fromClose \in BOOLEAN : stop_server(fromClose)
  \/ StopCall
  \/ ShutdownReturn
  \/ WaitReturn
  \/ update_server_status
  \/ \E k \in Threads : Bind(k)
  \/ \E k \in Threads : ServeEnter(k)
  \/ \E k \in Threads : ServeExit(k)
  \/ \E k \in Threads : RunExcept(k)
  \/ \E k \in Threads : RunFinally(k)

guiAll == <<vars, touchVars, guiVars>>

SpecGui == Init /\ [][GuiNext]_guiAll

\* Both threads are scheduled, and the GUI thread goes on with what it has
\* begun and empties its event queue; when the user presses a button is
\* left open.
FairGui ==
  /\ SpecGui
  /\ \A k \in Threads : WF_guiAll(ThreadStep(k))
  /\ WF_guiAll(StopCall)
  /\ WF_guiAll(ShutdownReturn)
  /\ WF_guiAll(WaitReturn)
  /\ WF_guiAll(update_server_status)

\* At most one ServerThread is running at any time.
OneThread == Cardinality({k \in Threads : isRunning(k)}) <= 1

\* stop_server has returned for the thread it stopped: the GUI thread is
\* idle again, run() has returned and no socket of the thread is open.
Stopped ==
  /\ guiPc = "idle"
  /\ server_thread /= 0
  /\ runPc[server_thread] = "finished"
  /\ httpd[server_thread] /= "open"

\* C35: under every interleaving of the GUI thread and the server thread, a
\* stop_server call made after start_server eventually returns with the
\* server thread finished and the listening socket closed, also when it
\* runs before the thread has created its socket.  The code does not do
\* this: ServerThread.stop skips shutdown() while self.httpd is unset, and
\* wait() then waits for a thread that goes on to serve forever.
C35_StopServerReturns == (guiPc = "stop") ~> Stopped

\* The server thread has ended and the GUI thread has handled every status
\* signal it sent.
EndedAndProcessed ==
  /\ guiPc = "idle"
  /\ server_thread /= 0
  /\ runPc[server_thread] = "finished"
  /\ statusQueue = <<>>

\* C36: once the server thread has ended (after a stop, or after a bind or
\* serve error) and its status signals have been processed, server_running
\* is false, Start is enabled and Stop is disabled; and no second server
\* thread exists while one is running.  The code does not do this: after a
\* bind error update_server_status resets the buttons but leaves
\* server_running true.
C36_GuiTracksServer ==
  /\ EndedAndProcessed => (~server_running /\ start_btn /\ ~stop_btn)
  /\ OneThread

====
